---- MODULE Spec2Model ----
(***************************************************************************)
(* A model of the USDA comment pipeline:                                   *)
(*   API_Document_CommentsDownloader.py  (Identifier Resolver, Ingestor)   *)
(*   LLM_Model_FINAL.py                  (Text/Structured Extractor,       *)
(*                                        Comment Processor)               *)
(*   comment_clustering.py               (Issue Clusterer)                 *)
(* Each script is a sequential program; it is modelled by its own          *)
(* specification over its own variables (SpecMain, SpecIngest,             *)
(* SpecProcess, SpecClassify, SpecCluster), the other variables idle.      *)
(***************************************************************************)
EXTENDS Integers, Sequences, FiniteSets, TLC

VARIABLES
  \* ---- main() of the downloader
  link, id_value, id_type, object_id, total_input, mpc, call,
  \* ---- fetch_all_comments(object_id, filename, total_comments)
  avail, total_comments, page_number, response, idx, cleaned_comments,
  downloaded_comments, files, ipc, run, faults,
  \* history of the current run of fetch_all_comments
  requested, rows_returned, written, count_at_end, page_collected, collected,
  failed_fetches, disk_at_start,
  \* ---- process_json_comments(json_file, pdf_folder)
  comments_data, ci, results, ppc, perror, pdf_count, extracted_texts,
  \* history of the call
  llm_calls, skipped, retrieved,
  \* ---- one call of classify_comment_by_issue
  llm_reply, summary, cpc,
  \* ---- comment_clustering.py
  flat, df, all_issues, batch, groups_left, issue_to_category, all_categories,
  category_mapping, high_level_issues, df_sorted, kpc, kerror,
  \* history of the script
  listed, batch_start, response_kind,
  \* ---- one call of extract_text_from_pdf(pdf_path)
  pdf_file, extraction, xpc

mainVars == <<link, id_value, id_type, object_id, total_input, mpc, call>>
ingestVars == <<avail, total_comments, page_number, response, idx,
                cleaned_comments, downloaded_comments, files, ipc, run, faults,
                requested, rows_returned, written, count_at_end,
                page_collected, collected, failed_fetches, disk_at_start>>
procVars == <<comments_data, ci, results, ppc, perror, pdf_count,
              extracted_texts, llm_calls, skipped, retrieved>>
classVars == <<llm_reply, summary, cpc>>
clusterVars == <<flat, df, all_issues, batch, groups_left, issue_to_category,
                 all_categories, category_mapping, high_level_issues,
                 df_sorted, kpc, kerror, listed, batch_start,
                 response_kind>>
extractVars == <<pdf_file, extraction, xpc>>
vars == <<mainVars, ingestVars, procVars, classVars, clusterVars, extractVars>>

(***************************************************************************)
(* Bounds of the model.  PageSize stands for page_size = 250 of            *)
(* fetch_all_comments, scaled down so that full, short and empty pages     *)
(* all occur.  MaxDisturbances bounds what may disturb a behaviour of the   *)
(* Ingestor: the failed calls of the API plus the re-runs of the script.   *)
(* BatchSize stands for BATCH_SIZE = 500 and RelatedCap for the cap of 200 *)
(* member issues of a group, both scaled down.                             *)
(***************************************************************************)
PageSize == 6
MaxLinkLen == 3
MaxDisturbances == 1
MaxLimit == 7
MaxComments == 2
MaxStart == 5
MaxPages == 2
MaxContent == 4
MaxRecords == 2
BatchSize == 2
RelatedCap == 1
MaxGroups == 2

\* Python's None where a string is expected, and where a path is expected.
NoneStr == "<None>"
NonePath == <<>>

(***************************************************************************)
(* Text.  A Python string is the sequence of its tokens: "ws" is a run of  *)
(* whitespace, "," a comma, any other token a run of other characters;     *)
(* the empty string is << >>.  NoneText is None where text is expected.    *)
(***************************************************************************)
NoneText == <<"<None>">>

IsSpace(tok) == tok \in {"ws", " "}

\* str.strip()
RECURSIVE LStrip(_)
LStrip(t) == IF t # << >> /\ IsSpace(Head(t)) THEN LStrip(Tail(t)) ELSE t

RECURSIVE RStrip(_)
RStrip(t) ==
  IF t # << >> /\ IsSpace(t[Len(t)]) THEN RStrip(SubSeq(t, 1, Len(t) - 1)) ELSE t

Strip(t) == RStrip(LStrip(t))

\* str.lower()
LowerTok(tok) ==
  CASE tok = "See attached"         -> "see attached"
    [] tok = "SEE ATTACHED FILE(S)" -> "see attached file(s)"
    [] tok = "Please withdraw the rule" -> "please withdraw the rule"
    [] OTHER -> tok

Lower(t) == [k \in 1..Len(t) |-> LowerTok(t[k])]

Range(s) == {s[i] : i \in 1..Len(s)}
Min(a, b) == IF a <= b THEN a ELSE b

RECURSIVE SeqSum(_)
SeqSum(s) == IF s = <<>> THEN 0 ELSE Head(s) + SeqSum(Tail(s))

(***************************************************************************)
(* Identifier Resolver.  A link is the sequence of its path segments       *)
(* (joined by "/").  SegIsDocWord / SegIsDockWord: the segment ends with   *)
(* the word, so that "<word>/" occurs when another segment follows.        *)
(* MatchDocId(s): the longest prefix of s matching [A-Z0-9-]+-\d+, or      *)
(* NoneStr; MatchDocketId(s): the longest prefix matching [A-Z0-9-]+.      *)
(***************************************************************************)
Segments == {"document", "docket", "FSIS-2011-0012-0005", "FSIS", "comment"}

MatchDocId(s) == IF s = "FSIS-2011-0012-0005" THEN s ELSE NoneStr

MatchDocketId(s) == IF s \in {"FSIS-2011-0012-0005", "FSIS"} THEN s ELSE NoneStr

\* re.search: the leftmost position at which the pattern matches.
RECURSIVE SearchAfter(_, _, _, _)
SearchAfter(lnk, word, Match(_), i) ==
  IF i >= Len(lnk) THEN NoneStr
  ELSE IF lnk[i] = word /\ Match(lnk[i + 1]) # NoneStr THEN Match(lnk[i + 1])
  ELSE SearchAfter(lnk, word, Match, i + 1)

Contains(lnk, word) == \E i \in 1..Len(lnk) : lnk[i] = word

extract_docket_id_or_document_id(lnk) ==
  IF Contains(lnk, "document")
  THEN LET m == SearchAfter(lnk, "document", MatchDocId, 1)
       IN  IF m # NoneStr THEN <<m, "document">> ELSE <<NoneStr, NoneStr>>
  ELSE IF Contains(lnk, "docket")
  THEN LET m == SearchAfter(lnk, "docket", MatchDocketId, 1)
       IN  IF m # NoneStr THEN <<m, "docket">> ELSE <<NoneStr, NoneStr>>
  ELSE <<NoneStr, NoneStr>>

(***************************************************************************)
(* main() of the downloader.  total_input is what the user types at the    *)
(* second prompt: "all", an integer, or text int() rejects.                *)
(***************************************************************************)
Links == UNION {[1..n -> Segments] : n \in 0..MaxLinkLen}

TotalInputs == {[kind |-> "all", n |-> 0], [kind |-> "bad", n |-> 0]}
               \cup {[kind |-> "int", n |-> k] : k \in -1..MaxLimit}

\* float("inf") or int(total_comments)
Limit(inp) == [inf |-> inp.kind = "all", n |-> inp.n]

\* The repository's objectId of a document (the "objectId" attribute).
RepositoryObjectId(doc) == "0900006480b2f7a1"

\* fetch_object_id_from_document: the objectId on status 200, None otherwise
\* (and None when the reply carries no objectId).
fetch_object_id_from_document(document_id, status_ok, has_attr) ==
  IF status_ok /\ has_attr THEN RepositoryObjectId(document_id) ELSE NoneStr

NoCall == [object_id |-> NoneStr, filename |-> <<>>, total_comments |-> Limit([kind |-> "int", n |-> 0]), made |-> FALSE]

MainInit ==
  /\ link \in Links
  /\ id_value = NoneStr
  /\ id_type = NoneStr
  /\ object_id = NoneStr
  /\ total_input = [kind |-> "int", n |-> 0]
  /\ mpc = "resolve"
  /\ call = NoCall

\* lines 190-194
MainResolve ==
  /\ mpc = "resolve"
  /\ LET r == extract_docket_id_or_document_id(link)
     IN  /\ id_value' = r[1]
         /\ id_type' = r[2]
         /\ mpc' = IF r[1] = NoneStr THEN "returned" ELSE "input"
  /\ UNCHANGED <<link, object_id, total_input, call>>
  /\ UNCHANGED <<ingestVars, procVars, classVars, clusterVars, extractVars>>

\* lines 196-200
MainInput ==
  /\ mpc = "input"
  /\ \E inp \in TotalInputs :
       /\ total_input' = inp
       /\ mpc' = IF inp.kind = "bad" THEN "raised" ELSE "branch"
  /\ UNCHANGED <<link, id_value, id_type, object_id, call>>
  /\ UNCHANGED <<ingestVars, procVars, classVars, clusterVars, extractVars>>

\* lines 202-210
MainDocument ==
  /\ mpc = "branch"
  /\ id_type = "document"
  /\ \E status_ok \in BOOLEAN, has_attr \in BOOLEAN :
       LET oid == fetch_object_id_from_document(id_value, status_ok, has_attr)
       IN  /\ object_id' = oid
           /\ IF oid # NoneStr
              THEN /\ call' = [object_id |-> oid,
                               filename |-> <<"comments", id_value>>,
                               total_comments |-> Limit(total_input),
                               made |-> TRUE]
                   /\ mpc' = "ingested"
              ELSE /\ call' = call
                   /\ mpc' = "no_object_id"
  /\ UNCHANGED <<link, id_value, id_type, total_input>>
  /\ UNCHANGED <<ingestVars, procVars, classVars, clusterVars, extractVars>>

\* lines 211-212
MainOtherType ==
  /\ mpc = "branch"
  /\ id_type # "document"
  /\ mpc' = "invalid_id_type"
  /\ UNCHANGED <<link, id_value, id_type, object_id, total_input, call>>
  /\ UNCHANGED <<ingestVars, procVars, classVars, clusterVars, extractVars>>

MainNext == MainResolve \/ MainInput \/ MainDocument \/ MainOtherType

(***************************************************************************)
(* The repository behind the API: comments 1..avail of the object, in the  *)
(* order of the listing (sort=lastModifiedDate).  The body text and the    *)
(* attachments of comment i are fixed by i.                                *)
(***************************************************************************)
MaxAvail == 2 * PageSize + 1

\* The "comment" attribute of the full record (NoneText: null).
SourceText(i) ==
  CASE i % 5 = 1 -> <<"Please withdraw the rule">>
    [] i % 5 = 2 -> <<"See attached">>
    [] i % 5 = 3 -> NoneText
    [] i % 5 = 4 -> <<"ws", "SEE ATTACHED FILE(S)", "ws">>
    [] OTHER     -> <<"ws">>

Url(i, a, f) == <<"fileUrl", i, a, f>>

\* data[] of /comments/{id}/attachments: each attachment's fileFormats.
SourceAttachments(i) ==
  CASE i % 4 = 1 -> << [isList |-> TRUE,
                        fileFormats |-> << [fileUrl |-> Url(i, 0, 1), contentType |-> "application/pdf"] >>] >>
    [] i % 4 = 2 -> << >>
    [] i % 4 = 3 -> << [isList |-> FALSE, fileFormats |-> << >>],
                       [isList |-> TRUE,
                        fileFormats |-> << [fileUrl |-> NonePath, contentType |-> "application/pdf"],
                                           [fileUrl |-> Url(i, 1, 2), contentType |-> "application/msword"] >>] >>
    [] OTHER     -> << [isList |-> TRUE,
                        fileFormats |-> << [fileUrl |-> Url(i, 0, 1), contentType |-> "application/pdf"],
                                           [fileUrl |-> Url(i, 0, 2), contentType |-> "image/jpeg"] >>] >>

\* The downloads fetch_attachments attempts for comment i: <<attachment_index, format>>.
Downloads(i) ==
  LET atts == SourceAttachments(i)
  IN  {<<a - 1, f>> : a \in 1..Len(atts), f \in 1..2} \cap
      {d \in (0..2) \X (1..2) :
         /\ d[1] + 1 <= Len(atts)
         /\ atts[d[1] + 1].isList
         /\ d[2] <= Len(atts[d[1] + 1].fileFormats)
         /\ atts[d[1] + 1].fileFormats[d[2]].fileUrl # NonePath}

\* get_extension_from_content_type; NoneStr is None
get_extension_from_content_type(content_type) ==
  CASE content_type = "application/pdf" -> "pdf"
    [] content_type = "image/jpeg"      -> "jpg"
    [] content_type = "image/png"       -> "png"
    [] content_type = "application/zip" -> "zip"
    [] OTHER                            -> NoneStr

\* download_file: the local path <<comment_id, attachment_index, extension>>
\* on status 200, None otherwise.
download_file(content_type, comment_id, attachment_index, status_ok) ==
  IF status_ok
  THEN LET e == get_extension_from_content_type(content_type)
       IN  <<comment_id, attachment_index, IF e = NoneStr THEN "dat" ELSE e>>
  ELSE NonePath

RECURSIVE FormatsMetadata(_, _, _, _, _)
FormatsMetadata(comment_id, attachment_index, formats, f, failing) ==
  IF f > Len(formats) THEN << >>
  ELSE (IF formats[f].fileUrl # NonePath
        THEN << [url |-> formats[f].fileUrl,
                 file_path |-> download_file(formats[f].contentType, comment_id,
                                             attachment_index,
                                             <<attachment_index, f>> \notin failing)] >>
        ELSE << >>)
       \o FormatsMetadata(comment_id, attachment_index, formats, f + 1, failing)

RECURSIVE AttachmentsMetadata(_, _, _, _)
AttachmentsMetadata(comment_id, atts, a, failing) ==
  IF a > Len(atts) THEN << >>
  ELSE (IF atts[a].isList
        THEN FormatsMetadata(comment_id, a - 1, atts[a].fileFormats, 1, failing)
        ELSE << >>)
       \o AttachmentsMetadata(comment_id, atts, a + 1, failing)

\* fetch_attachments: [] when the listing fails; failing is the set of
\* downloads answered with a non-200 status.
fetch_attachments(comment_id, status_ok, failing) ==
  IF status_ok
  THEN AttachmentsMetadata(comment_id, SourceAttachments(comment_id), 1, failing)
  ELSE << >>

\* get_comments_by_object_id: the rows of the page, or None (ok = FALSE).
PageRows(n, page) ==
  [k \in 1..(Min(page * PageSize, n) - Min((page - 1) * PageSize, n)) |->
     (page - 1) * PageSize + k]

get_comments_by_object_id(n, page, status_ok) ==
  IF status_ok THEN [ok |-> TRUE, data |-> PageRows(n, page)]
  ELSE [ok |-> FALSE, data |-> << >>]

\* downloaded_comments >= total_comments, total_comments possibly float("inf")
ReachedLimitOffByOne(downloaded, total) == ~total.inf /\ downloaded > total.n

ReachedLimit(downloaded, total) == ~total.inf /\ downloaded >= total.n

\* line 109: the loop ends after this page
StopOnShortPageOnly(downloaded, total, nrows) == nrows < PageSize

StopAfterPage(downloaded, total, nrows) ==
  ReachedLimit(downloaded, total) \/ nrows < PageSize

NoReset(cleaned) == cleaned

\* line 107: cleaned_comments = []
ResetBatch(cleaned) == << >>

\* save_comments_incrementally: open(page_filename, 'w') and json.dump
SaveAppending(fs, comments, page) ==
  [p \in DOMAIN fs \cup {page} |->
     IF p = page THEN (IF p \in DOMAIN fs THEN fs[p] ELSE << >>) \o comments
     ELSE fs[p]]

save_comments_incrementally(fs, comments, page) ==
  [p \in DOMAIN fs \cup {page} |-> IF p = page THEN comments ELSE fs[p]]

Limits == {Limit(inp) : inp \in {t \in TotalInputs : t.kind # "bad"}}

NoFiles == [p \in {} |-> << >>]

\* Another API call may fail / the script may be run again.
MayDisturb(n) == faults + (run - 1) + n <= MaxDisturbances

\* lines 69-72, at the entry of fetch_all_comments
IngestInit ==
  /\ avail \in 0..MaxAvail
  /\ total_comments \in Limits
  /\ page_number = 1
  /\ response = [ok |-> FALSE, data |-> << >>]
  /\ idx = 1
  /\ cleaned_comments = << >>
  /\ downloaded_comments = 0
  /\ files = NoFiles
  /\ ipc = "request"
  /\ run = 1
  /\ faults = 0
  /\ requested = << >>
  /\ rows_returned = << >>
  /\ written = << >>
  /\ count_at_end = << >>
  /\ page_collected = << >>
  /\ collected = << >>
  /\ failed_fetches = 0
  /\ disk_at_start = NoFiles

\* lines 75-79
Request ==
  /\ ipc = "request"
  /\ \E status_ok \in BOOLEAN :
       /\ status_ok \/ MayDisturb(1)
       /\ LET r == get_comments_by_object_id(avail, page_number, status_ok)
          IN  /\ response' = r
              /\ rows_returned' = Append(rows_returned, Len(r.data))
              /\ ipc' = IF ~r.ok \/ r.data = << >> THEN "done" ELSE "loop"
       /\ faults' = IF status_ok THEN faults ELSE faults + 1
       /\ failed_fetches' = IF status_ok THEN failed_fetches ELSE failed_fetches + 1
  /\ requested' = Append(requested, page_number)
  /\ idx' = 1
  /\ page_collected' = << >>
  /\ UNCHANGED <<avail, total_comments, page_number, cleaned_comments,
                 downloaded_comments, files, run, written, count_at_end,
                 collected, disk_at_start>>
  /\ UNCHANGED <<mainVars, procVars, classVars, clusterVars, extractVars>>

\* lines 81-104, one iteration of the for loop
ForComment ==
  /\ ipc = "loop"
  /\ idx <= Len(response.data)
  /\ IF ReachedLimit(downloaded_comments, total_comments)
     THEN /\ ipc' = "save"
          /\ UNCHANGED <<idx, cleaned_comments, downloaded_comments, faults,
                         page_collected, failed_fetches>>
     ELSE \E has_self \in BOOLEAN, full_ok \in BOOLEAN, list_ok \in BOOLEAN,
             failing \in SUBSET Downloads(response.data[idx]) :
            LET fetched == has_self /\ full_ok
                used == (IF fetched THEN 0 ELSE 1)
                        + (IF fetched /\ ~list_ok THEN 1 ELSE 0)
                        + (IF fetched /\ list_ok THEN Cardinality(failing) ELSE 0)
                comment_id == response.data[idx]
                cleaned_comment ==
                  [comment_id |-> comment_id,
                   text |-> SourceText(comment_id),
                   attachments |-> fetch_attachments(comment_id, list_ok, failing)]
            IN  /\ MayDisturb(used)
                \* one outcome per distinguishable result
                /\ ~has_self => full_ok /\ list_ok /\ failing = {}
                /\ ~full_ok => list_ok /\ failing = {}
                /\ ~list_ok => failing = {}
                /\ faults' = faults + used
                /\ failed_fetches' = IF fetched THEN failed_fetches ELSE failed_fetches + 1
                /\ cleaned_comments' = IF fetched THEN Append(cleaned_comments, cleaned_comment)
                                       ELSE cleaned_comments
                /\ page_collected' = IF fetched THEN Append(page_collected, cleaned_comment)
                                     ELSE page_collected
                /\ downloaded_comments' = IF fetched THEN downloaded_comments + 1
                                          ELSE downloaded_comments
                /\ idx' = idx + 1
                /\ ipc' = IF idx + 1 > Len(response.data) THEN "save" ELSE "loop"
  /\ UNCHANGED <<avail, total_comments, page_number, response, files, run,
                 requested, rows_returned, written, count_at_end, collected,
                 disk_at_start>>
  /\ UNCHANGED <<mainVars, procVars, classVars, clusterVars, extractVars>>

\* lines 106-107
Save ==
  /\ ipc = "save"
  /\ files' = save_comments_incrementally(files, cleaned_comments, page_number)
  /\ cleaned_comments' = ResetBatch(cleaned_comments)
  /\ written' = Append(written, page_number)
  /\ collected' = Append(collected, page_collected)
  /\ count_at_end' = Append(count_at_end, downloaded_comments)
  /\ ipc' = "check"
  /\ UNCHANGED <<avail, total_comments, page_number, response, idx,
                 downloaded_comments, run, faults, requested, rows_returned,
                 page_collected, failed_fetches, disk_at_start>>
  /\ UNCHANGED <<mainVars, procVars, classVars, clusterVars, extractVars>>

\* lines 109-112
Check ==
  /\ ipc = "check"
  /\ IF StopAfterPage(downloaded_comments, total_comments, Len(response.data))
     THEN ipc' = "done" /\ page_number' = page_number
     ELSE ipc' = "request" /\ page_number' = page_number + 1
  /\ UNCHANGED <<avail, total_comments, response, idx, cleaned_comments,
                 downloaded_comments, files, run, faults, requested,
                 rows_returned, written, count_at_end, page_collected,
                 collected, failed_fetches, disk_at_start>>
  /\ UNCHANGED <<mainVars, procVars, classVars, clusterVars, extractVars>>

\* The script is run again on the same document: fetch_all_comments is
\* entered with the same filename and a limit of the user's choice.
Rerun ==
  /\ ipc = "done"
  /\ MayDisturb(1)
  /\ run' = run + 1
  /\ total_comments' \in Limits
  /\ page_number' = 1
  /\ response' = [ok |-> FALSE, data |-> << >>]
  /\ idx' = 1
  /\ cleaned_comments' = << >>
  /\ downloaded_comments' = 0
  /\ ipc' = "request"
  /\ requested' = << >>
  /\ rows_returned' = << >>
  /\ written' = << >>
  /\ count_at_end' = << >>
  /\ page_collected' = << >>
  /\ collected' = << >>
  /\ failed_fetches' = 0
  /\ disk_at_start' = files
  /\ UNCHANGED <<avail, files, faults>>
  /\ UNCHANGED <<mainVars, procVars, classVars, clusterVars, extractVars>>

IngestNext == Request \/ ForComment \/ Save \/ Check \/ Rerun

(***************************************************************************)
(* Text Extractor: extract_text_from_pdf.  A local PDF is what the two     *)
(* passes do on it: page_text of each page for pdfplumber ("none": None or *)
(* "", "ws": whitespace only, "txt": text, "raise": the pass raises there) *)
(* and, for OCR, whether it raises and the string of each page image.      *)
(***************************************************************************)
PageOutcomes == {"none", "ws", "txt", "raise"}

PageText(o) == IF o = "ws" THEN <<"ws">> ELSE IF o = "txt" THEN <<"txt">> ELSE << >>

\* lines 45-53: text accumulated until the pass ends or raises
RECURSIVE PrimaryText(_, _)
PrimaryText(pages, k) ==
  IF k > Len(pages) \/ pages[k] = "raise" THEN << >>
  ELSE (IF PageText(pages[k]) # << >> THEN PageText(pages[k]) \o <<"ws">> ELSE << >>)
       \o PrimaryText(pages, k + 1)

\* lines 60-62
RECURSIVE OcrText(_, _)
OcrText(images, k) ==
  IF k > Len(images) THEN << >>
  ELSE images[k] \o <<"ws">> \o OcrText(images, k + 1)

OcrFailed == <<"Unknown (OCR failed)">>
PdfUnreadable == <<"Unknown (PDF unreadable)">>

NeedsOcrWhenEmpty(text) == text = << >>

\* line 56: if not text.strip()
NeedsOcr(text) == Strip(text) = << >>

ExtractRun(pdf) ==
  LET text == PrimaryText(pdf.pages, 1)
  IN  IF NeedsOcr(text)
      THEN IF pdf.ocr.raises
           THEN [ocr_attempted |-> TRUE, result |-> OcrFailed]
           ELSE LET text2 == Strip(OcrText(pdf.ocr.images, 1))
                IN  [ocr_attempted |-> TRUE,
                     result |-> IF text2 # << >> THEN Strip(text2) ELSE PdfUnreadable]
      ELSE [ocr_attempted |-> FALSE,
            result |-> IF text # << >> THEN Strip(text) ELSE PdfUnreadable]

extract_text_from_pdf(pdf) == ExtractRun(pdf).result

OcrOutcomes ==
  {[raises |-> TRUE, images |-> << >>]} \cup
  {[raises |-> FALSE, images |-> im] :
     im \in UNION {[1..n -> {<< >>, <<"ws">>, <<"txt">>}] : n \in 0..MaxPages}}

PdfFiles ==
  [pages : UNION {[1..n -> PageOutcomes] : n \in 0..MaxPages}, ocr : OcrOutcomes]

(***************************************************************************)
(* Structured Extractor: classify_comment_by_issue.  The reply of the      *)
(* language-model call is an error of the service, or a message whose      *)
(* content is None or text.  The text is a sequence of tokens: "{", "}",   *)
(* "m" (well-formed members of a JSON object, whose parsed value is the    *)
(* reply's payload) and "p" (any other text).                              *)
(***************************************************************************)
ContentTokens == {"{", "}", "m", "p"}

NoneContent == <<"<None>">>

Contents == UNION {[1..n -> ContentTokens] : n \in 0..MaxContent} \cup {NoneContent}

\* Issue strings the model may return; NoneIssue is a JSON null.
NoneIssue == <<"<None>">>
IssueA == <<"worker safety">>
IssueB == <<"line speed", ",", " ", "staffing">>

IssuesValues ==
  {[kind |-> "missing", v |-> << >>], [kind |-> "null", v |-> << >>],
   [kind |-> "scalar", v |-> <<IssueA>>],
   [kind |-> "list", v |-> << >>], [kind |-> "list", v |-> <<IssueA>>],
   [kind |-> "list", v |-> <<IssueA, IssueB>>],
   [kind |-> "list", v |-> <<NoneIssue>>]}

Payloads ==
  [has_fields : {TRUE}, issues : IssuesValues]
  \cup {[has_fields |-> FALSE, issues |-> [kind |-> "list", v |-> <<IssueA>>]]}

EmptyObject == [has_fields |-> FALSE, issues |-> [kind |-> "missing", v |-> << >>]]

FirstIndex(t, tok) ==
  IF \E k \in 1..Len(t) : t[k] = tok
  THEN CHOOSE k \in 1..Len(t) : t[k] = tok /\ \A j \in 1..(k - 1) : t[j] # tok
  ELSE 0

LastIndex(t, tok) ==
  IF \E k \in 1..Len(t) : t[k] = tok
  THEN CHOOSE k \in 1..Len(t) : t[k] = tok /\ \A j \in (k + 1)..Len(t) : t[j] # tok
  ELSE 0

\* extract_json_block of LLM_Model_FINAL.py: re.search(r"\{[\s\S]*\}"), the
\* span from the first "{" to the last "}" after it; found = FALSE: ValueError.
extract_json_block(text) ==
  LET a == FirstIndex(text, "{")
      b == LastIndex(text, "}")
  IN  IF a # 0 /\ b > a THEN [found |-> TRUE, block |-> SubSeq(text, a, b)]
      ELSE [found |-> FALSE, block |-> << >>]

\* json.loads accepts the block
JsonLoads(block) == block \in {<<"{", "}">>, <<"{", "m", "}">>}

Sentinel ==
  [who_type |-> "Unknown", who_name |-> "Unknown", what |-> "Unknown",
   why |-> "Unknown", issues |-> <<<<"Needs manual review">>>>,
   scientific_legal_support |-> "No"]

\* lines 156-169
Extracted(data) ==
  [who_type |-> IF data.has_fields THEN "organization" ELSE "Unknown",
   who_name |-> IF data.has_fields THEN "National Tribal Fisheries Association" ELSE "Unknown",
   what |-> IF data.has_fields THEN "Requests stricter limits" ELSE "Unknown",
   why |-> IF data.has_fields THEN "Concerned about contamination" ELSE "Unknown",
   issues |-> CASE data.issues.kind = "list" -> data.issues.v
                [] data.issues.kind = "scalar" -> data.issues.v
                [] OTHER -> <<NoneIssue>>,
   scientific_legal_support |-> IF data.has_fields THEN "Yes" ELSE "No"]

\* lines 142-169, the body of the try: the exception it ends with ("none":
\* it returns value)
ClassifyTry(reply) ==
  IF reply.error THEN [exc |-> "APIError", value |-> Sentinel]
  ELSE IF reply.content = NoneContent THEN [exc |-> "AttributeError", value |-> Sentinel]
  ELSE LET j == extract_json_block(Strip(reply.content))
       IN  IF ~j.found THEN [exc |-> "ValueError", value |-> Sentinel]
           ELSE IF ~JsonLoads(j.block) THEN [exc |-> "JSONDecodeError", value |-> Sentinel]
           ELSE LET data == IF j.block = <<"{", "m", "}">> THEN reply.payload ELSE EmptyObject
                IN  IF data.issues.kind = "missing"
                    THEN [exc |-> "KeyError", value |-> Sentinel]
                    ELSE [exc |-> "none", value |-> Extracted(data)]

CaughtDecodeErrorsOnly(exc) == exc \in {"JSONDecodeError", "AttributeError"}

\* lines 171 and 182: except (json.JSONDecodeError, AttributeError), except Exception
Caught(exc) ==
  \/ exc \in {"JSONDecodeError", "AttributeError"}
  \/ exc \in {"APIError", "ValueError", "KeyError", "JSONDecodeError", "AttributeError"}

classify_comment_by_issue(reply) ==
  LET t == ClassifyTry(reply)
  IN  IF t.exc = "none" THEN [raised |-> FALSE, value |-> t.value]
      ELSE IF Caught(t.exc) THEN [raised |-> FALSE, value |-> Sentinel]
      ELSE [raised |-> TRUE, value |-> Sentinel]

ContentsWithMembers ==
  {c \in Contents \ {NoneContent} :
     extract_json_block(Strip(c)) = [found |-> TRUE, block |-> <<"{", "m", "}">>]}

Replies ==
  {[error |-> TRUE, content |-> << >>, payload |-> EmptyObject]}
  \cup {[error |-> FALSE, content |-> c, payload |-> EmptyObject] :
          c \in Contents \ ContentsWithMembers}
  \cup {[error |-> FALSE, content |-> c, payload |-> d] :
          c \in ContentsWithMembers, d \in Payloads}

(***************************************************************************)
(* Comment Processor: process_json_comments on one PageFile.               *)
(***************************************************************************)
\* ", ".join(issues)
RECURSIVE Join(_)
Join(issues) ==
  IF issues = << >> THEN << >>
  ELSE IF Len(issues) = 1 THEN issues[1]
  ELSE issues[1] \o <<",", " ">> \o Join(Tail(issues))

\* The entries fetch_all_comments can append for comment i (lines 94-99).
CleanedComments(i) ==
  {[comment_id |-> i, text |-> SourceText(i),
    attachments |-> fetch_attachments(i, list_ok, failing)] :
     list_ok \in BOOLEAN, failing \in SUBSET Downloads(i)}

\* The PageFiles of up to MaxComments consecutive comments from comment s on.
PageFilesFrom(s) ==
  UNION {{f \in [1..n -> UNION {CleanedComments(s + k - 1) : k \in 1..n}] :
            \A k \in 1..n : f[k] \in CleanedComments(s + k - 1)} : n \in 0..MaxComments}

IsPdfPath(path) == path[3] = "pdf"

Boilerplate == {<<"see attached file(s)">>, <<"see attached">>}

\* pdf_count and extracted_texts are locals of one iteration of the loop
\* (lines 215-222); between iterations they hold nothing.
NoTexts == << >>
NoCount == 0

ProcInit ==
  /\ comments_data \in UNION {PageFilesFrom(s) : s \in 1..MaxStart}
  /\ ci = 1
  /\ results = << >>
  /\ ppc = "loop"
  /\ perror = "none"
  /\ pdf_count = 0
  /\ extracted_texts = << >>
  /\ llm_calls = << >>
  /\ skipped = << >>
  /\ retrieved = {}

\* What extract_text_from_pdf returns on the local PDFs.
ExtractResults == {extract_text_from_pdf(pdf) : pdf \in PdfFiles}

\* The local copy of an attachment: os.path.exists, and the text
\* extract_text_from_pdf returns on it.
LocalCopies ==
  {[present |-> FALSE, text |-> << >>]}
  \cup {[present |-> TRUE, text |-> t] : t \in ExtractResults}

\* lines 208-247: one comment up to the test of its combined text.
ProcessComment ==
  /\ ppc = "loop"
  /\ ci <= Len(comments_data)
  /\ LET comment == comments_data[ci]
         attachments == comment.attachments
         comment_text == IF comment.text = NoneText THEN << >> ELSE Strip(comment.text)
         body == IF comment_text # << >> /\ Lower(comment_text) \notin Boilerplate
                 THEN << <<"Comment Text">> \o comment_text >> ELSE << >>
     IN  IF \E a \in 1..Len(attachments) : attachments[a].file_path = NonePath
         THEN \* line 220: None has no attribute lower
              /\ ppc' = "raised"
              /\ perror' = "AttributeError"
              /\ UNCHANGED <<ci, pdf_count, extracted_texts, skipped, retrieved>>
         ELSE \E local \in [1..Len(attachments) -> LocalCopies] :
                LET read(a) == IsPdfPath(attachments[a].file_path) /\ local[a].present
                    pdf_text(a) == local[a].text
                    parts == [a \in 1..Len(attachments) |->
                                IF read(a) /\ pdf_text(a) # << >>
                                THEN << <<"Extracted PDF Text">> \o pdf_text(a) >>
                                ELSE << >>]
                    RECURSIVE Flat(_)
                    Flat(k) == IF k > Len(parts) THEN << >> ELSE parts[k] \o Flat(k + 1)
                    texts == body \o Flat(1)
                IN  \* one choice per distinguishable outcome
                    /\ \A a \in 1..Len(attachments) :
                         ~IsPdfPath(attachments[a].file_path) => ~local[a].present
                    /\ pdf_count' = IF texts = << >> THEN NoCount
                                    ELSE Cardinality({a \in 1..Len(attachments) :
                                                        IsPdfPath(attachments[a].file_path)})
                    /\ extracted_texts' = IF texts = << >> THEN NoTexts ELSE texts
                    /\ retrieved' = IF Flat(1) # << >> THEN retrieved \cup {ci} ELSE retrieved
                    /\ IF texts = << >>
                       THEN /\ skipped' = Append(skipped, ci)
                            /\ ci' = ci + 1
                            /\ ppc' = "loop"
                       ELSE /\ skipped' = skipped
                            /\ ci' = ci
                            /\ ppc' = "classify"
                    /\ perror' = perror
  /\ UNCHANGED <<comments_data, results, llm_calls>>
  /\ UNCHANGED <<mainVars, ingestVars, classVars, clusterVars, extractVars>>

\* What classify_comment_by_issue does on the replies of the service.
ClassifyResults == {classify_comment_by_issue(r) : r \in Replies}

\* lines 250-267: the comment is classified and its record appended
ClassifyComment ==
  /\ ppc = "classify"
  /\ \E s \in ClassifyResults :
       LET comment == comments_data[ci]
       IN  /\ llm_calls' = Append(llm_calls, ci)
           /\ IF s.raised
              THEN /\ ppc' = "raised"
                   /\ perror' = "classify"
                   /\ UNCHANGED <<results, ci, pdf_count, extracted_texts>>
              ELSE IF NoneIssue \in Range(s.value.issues)
              THEN \* line 260: join of a non-string item
                   /\ ppc' = "raised"
                   /\ perror' = "TypeError"
                   /\ UNCHANGED <<results, ci, pdf_count, extracted_texts>>
              ELSE /\ results' = Append(results,
                         [index |-> ci,
                          comment_id |-> comment.comment_id,
                          who_type |-> s.value.who_type,
                          who_name |-> s.value.who_name,
                          what |-> s.value.what,
                          why |-> s.value.why,
                          issues |-> Join(s.value.issues),
                          scientific_legal_support |-> s.value.scientific_legal_support,
                          pdf_attachments_present |-> pdf_count > 0,
                          pdf_attachments_count |-> pdf_count])
                   /\ ci' = ci + 1
                   /\ ppc' = "loop"
                   /\ perror' = perror
                   /\ pdf_count' = NoCount
                   /\ extracted_texts' = NoTexts
  /\ UNCHANGED <<comments_data, skipped, retrieved>>
  /\ UNCHANGED <<mainVars, ingestVars, classVars, clusterVars, extractVars>>

\* line 269
ProcessReturn ==
  /\ ppc = "loop"
  /\ ci > Len(comments_data)
  /\ ppc' = "returned"
  /\ UNCHANGED <<comments_data, ci, results, perror, pdf_count, extracted_texts,
                 llm_calls, skipped, retrieved>>
  /\ UNCHANGED <<mainVars, ingestVars, classVars, clusterVars, extractVars>>

ProcNext == ProcessComment \/ ClassifyComment \/ ProcessReturn

ProcIdle ==
  /\ comments_data = << >>
  /\ ci = 1
  /\ results = << >>
  /\ ppc = "idle"
  /\ perror = "none"
  /\ pdf_count = 0
  /\ extracted_texts = << >>
  /\ llm_calls = << >>
  /\ skipped = << >>
  /\ retrieved = {}

\* One call of classify_comment_by_issue on a reply of the service.
ClassInit ==
  /\ llm_reply \in Replies
  /\ summary = [raised |-> FALSE, value |-> Sentinel]
  /\ cpc = "call"

Classify ==
  /\ cpc = "call"
  /\ summary' = classify_comment_by_issue(llm_reply)
  /\ cpc' = "returned"
  /\ UNCHANGED llm_reply
  /\ UNCHANGED <<mainVars, ingestVars, procVars, clusterVars, extractVars>>

ClassNext == Classify

ClassIdle ==
  /\ llm_reply = [error |-> TRUE, content |-> << >>, payload |-> EmptyObject]
  /\ summary = [raised |-> FALSE, value |-> Sentinel]
  /\ cpc = "idle"

(***************************************************************************)
(* Issue Clusterer: comment_clustering.py.  A category name is a natural   *)
(* number, their order standing for the order of the strings; 0 is the     *)
(* empty string.  A dict is the set of its <<key, value>> pairs.           *)
(***************************************************************************)
\* The issues lists of the flat table's records, as the Structured
\* Extractor returned them.
IssueLists ==
  {<< >>, <<IssueA, IssueB>>, <<<<"Needs manual review">>>>}

CommentIdChoices == {1, 2}

\* str.split(",")
RECURSIVE SplitComma(_, _)
SplitComma(t, piece) ==
  IF t = << >> THEN <<piece>>
  ELSE IF Head(t) = "," THEN <<piece>> \o SplitComma(Tail(t), << >>)
  ELSE SplitComma(Tail(t), Append(piece, Head(t)))

\* lines 25-27: [i.strip() for i in x.split(",")]
SplitIssues(x) ==
  LET pieces == SplitComma(x, << >>)
  IN  [k \in 1..Len(pieces) |-> Strip(pieces[k])]

\* line 24: the rows whose issues cell is not NaN (an empty cell reads as NaN)
RECURSIVE NotNaRows(_)
NotNaRows(rows) ==
  IF rows = << >> THEN << >>
  ELSE (IF Head(rows).issues # << >> THEN <<Head(rows)>> ELSE << >>)
       \o NotNaRows(Tail(rows))

\* lines 30-31: the keys of the Counter, in the order of first occurrence
RECURSIVE Distinct(_, _)
Distinct(items, seen) ==
  IF items = << >> THEN << >>
  ELSE IF Head(items) \in seen THEN Distinct(Tail(items), seen)
  ELSE <<Head(items)>> \o Distinct(Tail(items), seen \cup {Head(items)})

RECURSIVE Concat(_)
Concat(lists) == IF lists = << >> THEN << >> ELSE Head(lists) \o Concat(Tail(lists))

\* line 77: ceil(len(all_issues) / BATCH_SIZE)
NumBatches(n) == (n + BatchSize - 1) \div BatchSize

\* line 82
BatchIssues(issues, i) ==
  SubSeq(issues, i * BatchSize + 1, Min((i + 1) * BatchSize, Len(issues)))

\* Dicts
DictKeys(d) == {pr[1] : pr \in d}

DictGet(d, k, default) ==
  IF k \in DictKeys(d) THEN (CHOOSE pr \in d : pr[1] = k)[2] ELSE default

DictAdd(d, k, v) == d \cup {<<k, v>>}

\* d[k] = v
DictSet(d, k, v) == {pr \in d : pr[1] # k} \cup {<<k, v>>}

\* lines 106-107: for issue in related_issues: issue_to_category[issue] = category
RECURSIVE AssignAll(_, _, _)
AssignAll(d, related, category) ==
  IF related = << >> THEN d
  ELSE AssignAll(DictSet(d, Head(related), category), Tail(related), category)

\* line 105: group["related_issues"][:200]
Capped(related) == SubSeq(related, 1, Min(RelatedCap, Len(related)))

\* The member issue strings and the categories a response may hold.
ResponseIssues == {<<"worker safety">>, <<"line speed">>, <<"wages">>}

Categories == {1, 2}

RelatedLists == UNION {[1..n -> ResponseIssues] : n \in 0..(RelatedCap + 1)}

\* A group of the parsed array: an object that may lack either key.
Groups ==
  [has_category : {TRUE}, has_related : {TRUE}, category : Categories,
   related_issues : RelatedLists]
  \cup {[has_category |-> FALSE, has_related |-> TRUE, category |-> 1,
         related_issues |-> << >>]}
  \cup [has_category : {TRUE}, has_related : {FALSE}, category : Categories,
        related_issues : {<< >>}]

\* extract_json_block of comment_clustering.py on the response text: the
\* text holds no array of objects ("no_array"), the array found is not JSON
\* ("bad_json", both end in ValueError), or the array is parsed ("parsed").
ParseOutcomes == {"no_array", "bad_json", "parsed"}

ParseRaisesValueError(outcome) == outcome # "parsed"

\* The reply to consolidate_categories: text json.loads rejects, a JSON
\* value that is no object, or an object, a dict from names to names.
ConsolidationDicts == {{}, {<<2, 1>>}, {<<1, 3>>, <<2, 3>>}, {<<1, 3>>, <<3, 1>>}}

ConsolidationReplies ==
  {[kind |-> "bad_json", dict |-> {}], [kind |-> "not_object", dict |-> {}]}
  \cup {[kind |-> "object", dict |-> d] : d \in ConsolidationDicts}

MergedCategories == Categories \cup {3}

\* line 146
IdentityMapping(categories) == {<<c, c>> : c \in categories}

\* line 149
Consolidate(d, mapping) == {<<pr[1], DictGet(mapping, pr[2], pr[2])>> : pr \in d}

\* map_to_categories, as a set: `if category` drops None and ""
map_to_categories(d, issues) ==
  {DictGet(d, issues[k], 0) : k \in 1..Len(issues)} \ {0}

Perms(S) == {f \in [1..Cardinality(S) -> S] : Range(f) = S}

NaN == 0 - 1

\* line 163: df.explode, a record with an empty list giving one NaN row
RECURSIVE Explode(_, _, _)
Explode(table, lists, r) ==
  IF r > Len(table) THEN << >>
  ELSE (IF lists[r] = << >>
        THEN << [record |-> r, comment_id |-> table[r].comment_id, issue_category |-> NaN] >>
        ELSE [k \in 1..Len(lists[r]) |->
                [record |-> r, comment_id |-> table[r].comment_id,
                 issue_category |-> lists[r][k]]])
       \o Explode(table, lists, r + 1)

KeepAll(rows) == rows

\* line 165: the rows whose issue_category is not NaN
RECURSIVE DropNa(_)
DropNa(rows) ==
  IF rows = << >> THEN << >>
  ELSE (IF Head(rows).issue_category # NaN THEN <<Head(rows)>> ELSE << >>)
       \o DropNa(Tail(rows))

RowBefore(a, b) ==
  \/ a.issue_category < b.issue_category
  \/ a.issue_category = b.issue_category /\ a.comment_id <= b.comment_id

RECURSIVE Insert(_, _)
Insert(row, sorted) ==
  IF sorted = << >> THEN <<row>>
  ELSE IF RowBefore(row, Head(sorted)) THEN <<row>> \o sorted
  ELSE <<Head(sorted)>> \o Insert(row, Tail(sorted))

\* line 166: sort_values(by=["issue_category", "comment_id"])
RECURSIVE SortRows(_)
SortRows(rows) ==
  IF rows = << >> THEN << >> ELSE Insert(rows[Len(rows)], SortRows(SubSeq(rows, 1, Len(rows) - 1)))

\* batch_start and response_kind record, for the batch loop, the state at the
\* start of the current batch and what its response turned out to be.
NoBatch == [index |-> 0, map |-> {}, categories |-> {}]

\* The flat table processed_comments.csv: the issues cell is the joined list
\* (LLM_Model_FINAL.py line 260); extracted keeps, beside the row, the list
\* the Structured Extractor returned for it.
ClusterInit ==
  /\ flat \in UNION {[1..n -> {[comment_id |-> c, issues |-> Join(l), extracted |-> l] :
                                 c \in CommentIdChoices, l \in IssueLists}] :
                      n \in 0..MaxRecords}
  /\ df = << >>
  /\ all_issues = << >>
  /\ batch = 0
  /\ groups_left = 0
  /\ issue_to_category = {}
  /\ all_categories = {}
  /\ category_mapping = {}
  /\ high_level_issues = << >>
  /\ df_sorted = << >>
  /\ kpc = "load"
  /\ kerror = "none"
  /\ listed = {}
  /\ batch_start = NoBatch
  /\ response_kind = "none"

\* lines 23-32 and 76-79
LoadInput ==
  /\ kpc = "load"
  /\ LET rows == NotNaRows(flat)
         table == [r \in 1..Len(rows) |->
                     [comment_id |-> rows[r].comment_id,
                      issues |-> SplitIssues(rows[r].issues)]]
     IN  /\ df' = table
         /\ all_issues' = Distinct(Concat([r \in 1..Len(table) |-> table[r].issues]), {})
  /\ kpc' = "batches"
  /\ UNCHANGED <<flat, batch, groups_left, issue_to_category, all_categories,
                 category_mapping, high_level_issues, df_sorted, kerror, listed,
                 batch_start, response_kind>>
  /\ UNCHANGED <<mainVars, ingestVars, procVars, classVars, extractVars>>

\* lines 81-101 (and 108-110): the batch is sent and the response parsed
BatchRequest ==
  /\ kpc = "batches"
  /\ batch < NumBatches(Len(all_issues))
  /\ \E outcome \in ParseOutcomes, n \in 0..MaxGroups :
       /\ outcome # "parsed" => n = 0
       /\ response_kind' = IF ParseRaisesValueError(outcome) THEN "malformed"
                           ELSE "well_formed"
       /\ IF ParseRaisesValueError(outcome) \/ n = 0
          THEN /\ batch' = batch + 1
               /\ groups_left' = 0
               /\ kpc' = "batches"
          ELSE /\ batch' = batch
               /\ groups_left' = n
               /\ kpc' = "groups"
  /\ batch_start' = [index |-> batch, map |-> issue_to_category,
                      categories |-> all_categories]
  /\ UNCHANGED <<flat, df, all_issues, issue_to_category, all_categories,
                 category_mapping, high_level_issues, df_sorted, kerror, listed>>
  /\ UNCHANGED <<mainVars, ingestVars, procVars, classVars, extractVars>>

\* lines 102-107: one group of the parsed array
GroupStep ==
  /\ kpc = "groups"
  /\ \E group \in Groups :
       IF ~group.has_category
       THEN \* line 103: KeyError, which line 108 does not catch
            /\ kpc' = "raised"
            /\ kerror' = "KeyError"
            /\ response_kind' = "schema_violating"
            /\ UNCHANGED <<batch, groups_left, issue_to_category, all_categories, listed>>
       ELSE IF ~group.has_related
       THEN \* line 105: KeyError, after line 104 added the category
            /\ all_categories' = all_categories \cup {group.category}
            /\ kpc' = "raised"
            /\ kerror' = "KeyError"
            /\ response_kind' = "schema_violating"
            /\ UNCHANGED <<batch, groups_left, issue_to_category, listed>>
       ELSE /\ all_categories' = all_categories \cup {group.category}
            /\ issue_to_category' =
                 AssignAll(issue_to_category, Capped(group.related_issues), group.category)
            /\ listed' = listed \cup Range(Capped(group.related_issues))
            /\ groups_left' = groups_left - 1
            /\ batch' = IF groups_left = 1 THEN batch + 1 ELSE batch
            /\ kpc' = IF groups_left = 1 THEN "batches" ELSE "groups"
            /\ kerror' = kerror
            /\ response_kind' = response_kind
  /\ UNCHANGED <<flat, df, all_issues, category_mapping, high_level_issues, df_sorted,
                 batch_start>>
  /\ UNCHANGED <<mainVars, ingestVars, procVars, classVars, extractVars>>

\* lines 113-149: consolidate_categories and the composition of the maps
ConsolidateCategories ==
  /\ kpc = "batches"
  /\ batch >= NumBatches(Len(all_issues))
  /\ \E r \in ConsolidationReplies :
       IF r.kind = "not_object"
       THEN \* line 149: the parsed value has no get
            /\ kpc' = "raised"
            /\ kerror' = "AttributeError"
            /\ UNCHANGED <<category_mapping, issue_to_category>>
       ELSE LET mapping == IF r.kind = "bad_json" THEN IdentityMapping(all_categories)
                           ELSE r.dict
            IN  /\ category_mapping' = mapping
                /\ issue_to_category' = Consolidate(issue_to_category, mapping)
                /\ kpc' = "map"
                /\ kerror' = kerror
  /\ batch_start' = NoBatch
  /\ response_kind' = "none"
  /\ UNCHANGED <<flat, df, all_issues, batch, groups_left, all_categories,
                 high_level_issues, df_sorted, listed>>
  /\ UNCHANGED <<mainVars, ingestVars, procVars, classVars, extractVars>>

\* The lists list(categories) can be for the records r..Len(table), the
\* order of a list being the order of the set's iteration.
RECURSIVE CategoryLists(_, _, _)
CategoryLists(table, d, r) ==
  IF r > Len(table) THEN {<< >>}
  ELSE {<<first>> \o rest :
          first \in Perms(map_to_categories(d, table[r].issues)),
          rest \in CategoryLists(table, d, r + 1)}

\* lines 151-160
MapToCategories ==
  /\ kpc = "map"
  /\ high_level_issues' \in CategoryLists(df, issue_to_category, 1)
  /\ kpc' = "explode"
  /\ UNCHANGED <<flat, df, all_issues, batch, groups_left, issue_to_category,
                 all_categories, category_mapping, df_sorted, kerror, listed,
                 batch_start, response_kind>>
  /\ UNCHANGED <<mainVars, ingestVars, procVars, classVars, extractVars>>

\* lines 163-167
ExplodeAndSort ==
  /\ kpc = "explode"
  /\ df_sorted' = SortRows(DropNa(Explode(df, high_level_issues, 1)))
  /\ kpc' = "done"
  /\ UNCHANGED <<flat, df, all_issues, batch, groups_left, issue_to_category,
                 all_categories, category_mapping, high_level_issues, kerror, listed,
                 batch_start, response_kind>>
  /\ UNCHANGED <<mainVars, ingestVars, procVars, classVars, extractVars>>

ClusterNext ==
  LoadInput \/ BatchRequest \/ GroupStep \/ ConsolidateCategories
  \/ MapToCategories \/ ExplodeAndSort

ClusterIdle ==
  /\ flat = << >>
  /\ df = << >>
  /\ all_issues = << >>
  /\ batch = 0
  /\ groups_left = 0
  /\ issue_to_category = {}
  /\ all_categories = {}
  /\ category_mapping = {}
  /\ high_level_issues = << >>
  /\ df_sorted = << >>
  /\ kpc = "idle"
  /\ kerror = "none"
  /\ listed = {}
  /\ batch_start = NoBatch
  /\ response_kind = "none"

MainIdle ==
  /\ link = << >>
  /\ id_value = NoneStr
  /\ id_type = NoneStr
  /\ object_id = NoneStr
  /\ total_input = [kind |-> "int", n |-> 0]
  /\ mpc = "idle"
  /\ call = NoCall

IngestIdle ==
  /\ avail = 0
  /\ total_comments = Limit([kind |-> "int", n |-> 0])
  /\ page_number = 1
  /\ response = [ok |-> FALSE, data |-> << >>]
  /\ idx = 1
  /\ cleaned_comments = << >>
  /\ downloaded_comments = 0
  /\ files = NoFiles
  /\ ipc = "idle"
  /\ run = 0
  /\ faults = 0
  /\ requested = << >>
  /\ rows_returned = << >>
  /\ written = << >>
  /\ count_at_end = << >>
  /\ page_collected = << >>
  /\ collected = << >>
  /\ failed_fetches = 0
  /\ disk_at_start = NoFiles

(***************************************************************************)
(* The specifications: one script (or one function) runs, the others idle. *)
(***************************************************************************)
\* One call of extract_text_from_pdf on a local PDF.
NoExtraction == [ocr_attempted |-> FALSE, result |-> << >>]

ExtractInit ==
  /\ pdf_file \in PdfFiles
  /\ extraction = NoExtraction
  /\ xpc = "called"

\* lines 40-69
Extract ==
  /\ xpc = "called"
  /\ extraction' = ExtractRun(pdf_file)
  /\ xpc' = "returned"
  /\ UNCHANGED pdf_file
  /\ UNCHANGED <<mainVars, ingestVars, procVars, classVars, clusterVars>>

ExtractNext == Extract

ExtractIdle ==
  /\ pdf_file = [pages |-> << >>, ocr |-> [raises |-> TRUE, images |-> << >>]]
  /\ extraction = NoExtraction
  /\ xpc = "idle"

InitMain == MainInit /\ IngestIdle /\ ProcIdle /\ ClassIdle /\ ClusterIdle /\ ExtractIdle

SpecMain == InitMain /\ [][MainNext]_vars

InitIngest == IngestInit /\ MainIdle /\ ProcIdle /\ ClassIdle /\ ClusterIdle /\ ExtractIdle

SpecIngest == InitIngest /\ [][IngestNext]_vars

InitProcess == ProcInit /\ MainIdle /\ IngestIdle /\ ClassIdle /\ ClusterIdle /\ ExtractIdle

SpecProcess == InitProcess /\ [][ProcNext]_vars

InitClassify == ClassInit /\ MainIdle /\ IngestIdle /\ ProcIdle /\ ClusterIdle /\ ExtractIdle

SpecClassify == InitClassify /\ [][ClassNext]_vars

InitCluster == ClusterInit /\ MainIdle /\ IngestIdle /\ ProcIdle /\ ClassIdle /\ ExtractIdle

SpecCluster == InitCluster /\ [][ClusterNext]_vars

InitExtract ==
  ExtractInit /\ MainIdle /\ IngestIdle /\ ProcIdle /\ ClassIdle /\ ClusterIdle

SpecExtract == InitExtract /\ [][ExtractNext]_vars

(***************************************************************************)
(* Properties of the Ingestor (SpecIngest) and of main (SpecMain).         *)
(***************************************************************************)
CommentIds(comments) == {comments[i].comment_id : i \in 1..Len(comments)}

\* The number of comment entries in the PageFiles the current run wrote.
TotalWritten == SeqSum([i \in 1..Len(written) |-> Len(files[written[i]])])

MinLimitAvail == IF total_comments.inf THEN avail ELSE Min(total_comments.n, avail)

LimitReachedAt(count) == ~total_comments.inf /\ count >= total_comments.n

StopRule ==
  /\ requested # << >> => requested[1] = 1
  /\ \A j \in 2..Len(requested) :
       /\ requested[j] = requested[j - 1] + 1
       /\ rows_returned[j - 1] = PageSize
       /\ j - 1 <= Len(count_at_end)
       /\ ~LimitReachedAt(count_at_end[j - 1])
  /\ ipc = "done" =>
       LET k == Len(requested)
       IN  \/ rows_returned[k] < PageSize
           \/ k <= Len(count_at_end) /\ LimitReachedAt(count_at_end[k])

Limit3Avail5 == ipc = "done" /\ ~total_comments.inf /\ total_comments.n = 3 /\ avail = 5

OnePageFileOfThree ==
  /\ requested = <<1>>
  /\ written = <<1>>
  /\ Len(files[1]) = 3

C8_PagesPersistedIncrementally ==
  /\ \A j \in 2..Len(requested) :
       \E i \in 1..Len(written) : written[i] = requested[j - 1]
  /\ \A i \in 1..Len(written) :
       /\ written[i] \in DOMAIN files
       /\ files[written[i]] = collected[i]
  /\ \A i, j \in 1..Len(written) :
       i # j => CommentIds(files[written[i]]) \cap CommentIds(files[written[j]]) = {}

C8_Witness ==
  /\ ipc = "done"
  /\ requested = <<1, 2>>
  /\ ~response.ok
  /\ written = <<1>>
  /\ Len(files[1]) = PageSize

\* The comments on disk.
DiskIds(fs) == UNION {CommentIds(fs[p]) : p \in DOMAIN fs}

\* C9 as stated: after a re-run every comment the earlier run persisted is
\* still on disk.
C9_RerunKeepsEarlierComments ==
  (run >= 2 /\ ipc = "done") => DiskIds(disk_at_start) \subseteq DiskIds(files)

\* C9: a re-run starts again at page 1 and overwrites: a PageFile
\* whose page number the re-run writes holds exactly the comments the re-run
\* collected on that page, and the PageFiles of the page numbers it does
\* not write are left as they were.
C9_RerunOverwrites ==
  /\ requested # << >> => requested[1] = 1
  /\ \A p \in DOMAIN disk_at_start :
       /\ p \in DOMAIN files
       /\ (\A i \in 1..Len(written) : written[i] # p) => files[p] = disk_at_start[p]
  /\ \A i \in 1..Len(written) : files[written[i]] = collected[i]

C9_Witness ==
  /\ run = 2
  /\ ipc = "done"
  /\ DOMAIN disk_at_start = {1, 2}
  /\ written = <<1>>
  /\ files[1] # disk_at_start[1]
  /\ files[2] = disk_at_start[2]
  /\ disk_at_start[1] # << >>

\* C10 as stated: both kinds of link are ingested; a document id is
\* dereferenced and the returned object-id is used, a docket id is used as
\* the object-id itself.
C10_BothKindsIngested ==
  /\ (id_type = "document" /\ mpc = "ingested") =>
       call.made /\ call.object_id = RepositoryObjectId(id_value)
  /\ (id_type = "docket" /\ mpc \notin {"resolve", "input", "branch", "raised"}) =>
       call.made /\ call.object_id = id_value

(***************************************************************************)
(* Properties of the Structured Extractor (SpecClassify) and of the        *)
(* Comment Processor (SpecProcess).                                        *)
(***************************************************************************)
HasBraces(c) == \E i, j \in 1..Len(c) : i < j /\ c[i] = "{" /\ c[j] = "}"

\* The reply is a failure of the call: an error of the service, text with no
\* brace-delimited block, or text whose brace-delimited block is not JSON.
FailedReply(r) ==
  \/ r.error
  \/ r.content # NoneContent /\ ~HasBraces(r.content)
  \/ /\ r.content # NoneContent
     /\ HasBraces(r.content)
     /\ ~JsonLoads(SubSeq(r.content, FirstIndex(r.content, "{"), LastIndex(r.content, "}")))

\* C3: whatever the language-model call does, classify_comment_by_issue
\* does not raise; on a service error, a reply without a brace-delimited
\* block or a reply whose block is malformed JSON it returns the sentinel
\* record.
C3_ClassifyFallsBackToSentinel ==
  cpc = "returned" =>
    /\ ~summary.raised
    /\ FailedReply(llm_reply) =>
         /\ summary.value.who_type = "Unknown"
         /\ summary.value.who_name = "Unknown"
         /\ summary.value.what = "Unknown"
         /\ summary.value.why = "Unknown"
         /\ summary.value.issues = << <<"Needs manual review">> >>

C3_Witness ==
  /\ cpc = "returned"
  /\ ~llm_reply.error
  /\ llm_reply.content = <<"p", "p">>
  /\ summary.value = Sentinel
  /\ ~summary.raised

Ended == ppc \in {"returned", "raised"}

HasRecord(i) == \E k \in 1..Len(results) : results[k].index = i

Skipped(i) == \E k \in 1..Len(skipped) : skipped[k] = i

Classified(i) == \E k \in 1..Len(llm_calls) : llm_calls[k] = i

\* The body of comment i is a "see attached" phrase, in any letter case.
BoilerplateBody(i) ==
  /\ comments_data[i].text # NoneText
  /\ Lower(Strip(comments_data[i].text)) \in Boilerplate

\* C4: when process_json_comments has ended, every comment with a
\* boilerplate body and no attachment text retrieved was skipped as empty,
\* has no FlatRecord, was not classified, and the comments after it were
\* all processed (skipped or recorded).
C4_BoilerplateWithoutTextSkipped ==
  Ended =>
    \A i \in 1..Len(comments_data) :
      (BoilerplateBody(i) /\ i \notin retrieved) =>
        /\ Skipped(i)
        /\ ~HasRecord(i)
        /\ ~Classified(i)
        /\ \A j \in (i + 1)..Len(comments_data) : Skipped(j) \/ HasRecord(j)

\* C7: no attachment's failure aborts the run: process_json_comments does
\* not raise, and when it returns every comment of the PageFile was either
\* skipped or has exactly one FlatRecord.
C7_NoAttachmentFailureAborts ==
  /\ ppc # "raised"
  /\ ppc = "returned" =>
       \A i \in 1..Len(comments_data) :
         /\ Skipped(i) # HasRecord(i)
         /\ Cardinality({k \in 1..Len(results) : results[k].index = i}) <= 1

Observed == Range(all_issues)

CategoriesOf(issue) == {pr[2] : pr \in {q \in issue_to_category : q[1] = issue}}

Composed == kpc \in {"map", "explode", "done"}

\* C5, as the specification states it: after both passes every observed
\* issue maps to exactly one category, the map being total on the observed
\* issues.
C5_MapTotalOnObservedIssues ==
  Composed => \A issue \in Observed : Cardinality(CategoriesOf(issue)) = 1

\* C5: an issue never maps to more than one category, and it maps to one
\* exactly when a member list of a parsed group named it within the cap;
\* the observed issues no group named are absent from the map.
C5_AtMostOneCategoryPerIssue ==
  \A issue \in Observed \cup ResponseIssues :
    /\ Cardinality(CategoriesOf(issue)) <= 1
    /\ Cardinality(CategoriesOf(issue)) = 1 <=> issue \in listed

C5_Witness ==
  /\ kpc = "done"
  /\ category_mapping # {}
  /\ \E issue \in Observed : issue \in listed /\ CategoriesOf(issue) = {3}
  /\ \E issue \in Observed : issue \notin listed

RowsOf(r, c) ==
  {k \in 1..Len(df_sorted) : df_sorted[k].record = r /\ df_sorted[k].issue_category = c}

\* C6: the exploded output holds exactly one row for each record and each
\* category of the record's final category set, no other row (none for a
\* record without categories), and its rows are in the order of the
\* category and then of the comment identifier.
C6_ExplodedRowsAndOrder ==
  kpc = "done" =>
    /\ \A r \in 1..Len(df) : \A c \in MergedCategories \cup {0, NaN} :
         Cardinality(RowsOf(r, c)) =
           IF c \in map_to_categories(issue_to_category, df[r].issues) THEN 1 ELSE 0
    /\ \A k \in 1..Len(df_sorted) :
         /\ df_sorted[k].record \in 1..Len(df)
         /\ df_sorted[k].comment_id = df[df_sorted[k].record].comment_id
         /\ df_sorted[k].issue_category \in MergedCategories
    /\ \A k \in 1..(Len(df_sorted) - 1) :
         \/ df_sorted[k].issue_category < df_sorted[k + 1].issue_category
         \/ /\ df_sorted[k].issue_category = df_sorted[k + 1].issue_category
            /\ df_sorted[k].comment_id <= df_sorted[k + 1].comment_id

C6_Witness ==
  /\ kpc = "done"
  /\ Len(df) = 2
  /\ Cardinality(Range(high_level_issues[1])) = 2
  /\ high_level_issues[2] = << >>
  /\ Len(df_sorted) = 2
  /\ high_level_issues[1][1] > high_level_issues[1][2]

Pass1Step == kpc \in {"batches", "groups"} /\ kpc' \in {"batches", "groups", "raised"}

\* C11: during pass 1 the first write wins: a step of the batch loop never
\* changes the category an issue already has in the issue-to-category map.
C11_FirstWriteWins ==
  [][Pass1Step => \A pr \in issue_to_category : pr \in issue_to_category']_vars

\* C12: a batch whose response is malformed (no JSON array of objects can
\* be parsed from it) or schema-violating (a group lacks the category or the
\* member-issue field) is skipped: the issue-to-category map and the set of
\* categories are as they were before the batch, the run is not aborted and
\* the loop goes on with the next batch.
C12_BadBatchSkipped ==
  response_kind \in {"malformed", "schema_violating"} =>
    /\ issue_to_category = batch_start.map
    /\ all_categories = batch_start.categories
    /\ kpc = "batches"
    /\ batch = batch_start.index + 1

(***************************************************************************)
(* Properties of the Text Extractor (SpecExtract).                         *)
(***************************************************************************)
PrimaryRaised == \E k \in 1..Len(pdf_file.pages) : pdf_file.pages[k] = "raise"

\* The pages the primary pass read before it ended or raised.
PagesRead ==
  {k \in 1..Len(pdf_file.pages) : \A j \in 1..k : pdf_file.pages[j] # "raise"}

\* The text the primary pass gathered is empty or whitespace only.
PrimaryBlank == \A k \in PagesRead : pdf_file.pages[k] # "txt"

OcrBlank == \A k \in 1..Len(pdf_file.ocr.images) : pdf_file.ocr.images[k] # <<"txt">>

Sentinels ==
  /\ (extraction.ocr_attempted /\ pdf_file.ocr.raises) => extraction.result = OcrFailed
  /\ (PrimaryBlank /\ ~pdf_file.ocr.raises /\ OcrBlank) => extraction.result = PdfUnreadable

\* C13, as the specification states it: when the primary pass raises, OCR is
\* attempted; otherwise OCR is attempted exactly when the primary text is
\* empty or whitespace only; the result is "OCR failed" when OCR raises and
\* "PDF unreadable" when neither pass yields text.
C13_OcrAttemptedWheneverPrimaryRaises ==
  xpc = "returned" =>
    /\ PrimaryRaised => extraction.ocr_attempted
    /\ ~PrimaryRaised => (extraction.ocr_attempted <=> PrimaryBlank)
    /\ Sentinels

\* C13: OCR is attempted exactly when the text the primary pass gathered,
\* up to its end or up to the error it raised, is empty or whitespace only
\* (so after an error only when no earlier page gave text); the result is
\* "OCR failed" when OCR raises and "PDF unreadable" when neither pass
\* yields text.
C13_OcrAttemptedWhenPrimaryBlank ==
  xpc = "returned" =>
    /\ extraction.ocr_attempted <=> PrimaryBlank
    /\ Sentinels

C13_Witness ==
  /\ xpc = "returned"
  /\ pdf_file.pages = <<"ws", "raise">>
  /\ extraction.ocr_attempted
  /\ ~pdf_file.ocr.raises
  /\ extraction.result = <<"txt">>

(***************************************************************************)
(* The hand-off of the issues lists from the Comment Processor to the      *)
(* Issue Clusterer (SpecCluster).                                          *)
(***************************************************************************)
\* The row of df that comes from row r of the flat table.
DfRow(r) == Cardinality({j \in 1..r : flat[j].issues # << >>})

\* The issues list the Issue Clusterer holds for row r of the flat table; a
\* row whose cell is empty is dropped and gives no issue.
Recovered(r) == IF flat[r].issues = << >> THEN << >> ELSE df[DfRow(r)].issues

ExtractedIssues == UNION {Range(flat[r].extracted) : r \in 1..Len(flat)}

\* C14: once the flat table is loaded and cleaned, the issues list of every
\* row is the sequence of issue strings the Structured Extractor returned
\* for it, and the distinct issues to be clustered are the extracted ones.
C14_IssuesRoundTrip ==
  kpc \notin {"idle", "load"} =>
    /\ \A r \in 1..Len(flat) : Recovered(r) = flat[r].extracted
    /\ Range(all_issues) = ExtractedIssues

====
